---- MODULE Spec2Model ----
(***************************************************************************)
(* A model of the vec_t growable array of src/src/vec.c (the elem_size    *)
(* based implementation, lines 217-1137) and of the allocator it calls.   *)
(*                                                                         *)
(* Memory is counted in element slots: one slot stands for elem_size      *)
(* bytes, so malloc(n * elem_size) is Malloc(n).  The block a data        *)
(* pointer refers to is kept with the array that holds the pointer        *)
(* (field cells, one entry per slot of the block); a block whose only     *)
(* pointer is overwritten without free() is counted in leaked.  A freshly *)
(* allocated slot holds an arbitrary element, and so does a slot read     *)
(* past the end of a block (which also raises the oob flag of the call).  *)
(***************************************************************************)
EXTENDS Integers, Sequences, FiniteSets, TLC

\* ---- bounds of the model ------------------------------------------------
\* The largest block, in slots, and the largest number of orphaned blocks.
MaxCap == 3
MaxLeak == 1
\* The longest run of pushes and the largest growth constant tried.
MaxPushes == 30
MaxGrowth == 4

\* ---- program constants --------------------------------------------------
VEC_ERR == 0
VEC_OK == 1
VEC_GROWTH_FACTOR == 2
NULL == 0
\* A non-NULL data pointer.
PTR == 1
ElemSize == 4

Vals == {1, 2}
Vecs == {"v1", "v2"}
\* No element written through the out pointer; no status returned.
NoOut == NULL
NoRet == VEC_ERR - 2

\* ---- the allocator ------------------------------------------------------
\* oom: the allocator may fail (malloc and realloc may return NULL for want
\* of memory).  It is FALSE throughout Spec and TRUE throughout FailSpec.
VARIABLE oom

Fills(n) == [1..n -> Vals]
Block(p, cells) == [p |-> p, cells |-> cells]
NoBlock == Block(NULL, <<>>)

\* malloc(n slots): a block of arbitrary content, or NULL when the
\* allocator fails.  malloc(0) is implementation-defined: NULL, or a block
\* of no slots.  A request beyond the model's bound has no outcome.
Malloc(n) ==
  IF n > MaxCap THEN {}
  ELSE {Block(PTR, c) : c \in Fills(n)}
       \cup (IF n = 0 \/ oom THEN {NoBlock} ELSE {})

\* The first n slots of cells followed by the slots of fill beyond them.
Resized(cells, fill, n) ==
  [i \in 1..n |-> IF i <= Len(cells) THEN cells[i] ELSE fill[i]]

\* realloc(p, n) with p # NULL: the block resized (in place or moved), its
\* first min(old, n) slots kept.  For n = 0 the result is
\* implementation-defined: the block is freed and NULL returned, or a block
\* of no slots is returned.
Realloc(cells, n) ==
  IF n > MaxCap THEN {}
  ELSE {Block(PTR, Resized(cells, c, n)) : c \in [(Len(cells) + 1)..n -> Vals]}
       \cup (IF n = 0 THEN {NoBlock} ELSE {})

\* ---- the array record ---------------------------------------------------
\* alloc: the vec_t structure itself is allocated (the handle is usable).
\* data is the pointer, cells the block it points to.
NoVec == [alloc |-> FALSE, len |-> 0, capacity |-> 0, data |-> NULL, cells |-> <<>>]
MkVec(l, c, b) ==
  [alloc |-> TRUE, len |-> l, capacity |-> c, data |-> b.p, cells |-> b.cells]

SetVec(w, v, r) == [w EXCEPT !.vecs[v] = r]
SetBlock(w, v, b) == [w EXCEPT !.vecs[v].data = b.p, !.vecs[v].cells = b.cells]
SetCap(w, v, c) == [w EXCEPT !.vecs[v].capacity = c]
IncLen(w, v, d) == [w EXCEPT !.vecs[v].len = w.vecs[v].len + d]
\* A block is orphaned: its pointer is lost and it was not freed.
Leak(w, n) == [w EXCEPT !.leaked = w.leaked + n]
\* An allocator call of the current call has failed.
Fail(w) == [w EXCEPT !.failed = TRUE]
\* malloc(n) gave m for want of memory (a NULL for n = 0 is no failure).
FailIf(w, m, n) == IF m.p = NULL /\ n > 0 THEN Fail(w) ELSE w

\* vec_offset(self, i) lies within the block of self (slots are 0-based).
InBuf(w, v, i) == w.vecs[v].data # NULL /\ i < Len(w.vecs[v].cells)
\* The elements a read of slot i of v's block can yield.
ReadSlot(w, v, i) == IF InBuf(w, v, i) THEN {w.vecs[v].cells[i + 1]} ELSE Vals
\* A write of slot i of v's block (dropped when outside the block).
WriteSlot(w, v, i, x) ==
  IF InBuf(w, v, i) THEN [w EXCEPT !.vecs[v].cells[i + 1] = x] ELSE w

\* The sequences a read of the n slots from slot off of v's block can
\* yield, and whether such an access leaves the block.
ReadRange(w, v, off, n) ==
  {r \in Fills(n) : \A i \in 1..n : r[i] \in ReadSlot(w, v, off + i - 1)}
RangeOob(w, v, off, n) == \E i \in 0..(n - 1) : ~InBuf(w, v, off + i)
\* A write of the sequence r to the slots from slot off of v's block.
WriteRange(w, v, off, r) ==
  IF w.vecs[v].data = NULL THEN w
  ELSE LET old == w.vecs[v].cells
       IN [w EXCEPT !.vecs[v].cells =
             [i \in 1..Len(old) |->
                IF off < i /\ i <= off + Len(r) THEN r[i - off] ELSE old[i]]]

\* The live elements of v: slots 0 .. len-1 of its block (0 where the
\* block has no such slot).
Elems(w, v) ==
  [i \in 1..w.vecs[v].len |->
     IF InBuf(w, v, i - 1) THEN w.vecs[v].cells[i] ELSE 0]

\* The result of one call: the world after it, the value returned, the
\* element written through the out pointer, whether a slot outside a block
\* was accessed, the number of allocator calls made for element blocks
\* (malloc, realloc, free; those for the vec_t structure are not counted)
\* and whether the call ended the program with exit().
Res(w, ret, out, oob, calls, exited) ==
  [w |-> w, ret |-> ret, out |-> out, oob |-> oob, calls |-> calls,
   exited |-> exited]
Ok(w, calls) == Res(w, VEC_OK, NoOut, FALSE, calls, FALSE)
Err(w, calls) == Res(w, VEC_ERR, NoOut, FALSE, calls, FALSE)
\* The result r of a nested call, seen from a caller that made n allocator
\* calls and accessed memory with out-of-block flag oob besides it.
After(r, oob, n) == [r EXCEPT !.oob = r.oob \/ oob, !.calls = r.calls + n]

\* vec_drop(self): free(self->data); free(self).
vec_drop(w, v) == SetVec(w, v, NoVec)

\* The out-of-bounds branch of the index-taking functions:
\* printf, vec_drop(self), exit(-1).
Panic(w, v) == Res(vec_drop(w, v), NoRet, NoOut, FALSE, 1, TRUE)

\* ---- construction ------------------------------------------------------
\* A constructor's result is stored in the handle v; a NULL result leaves
\* the handle without an array (ret is VEC_OK for a non-NULL result).
ExitOnly(w) == Res(w, NoRet, NoOut, FALSE, 0, TRUE)

\* malloc(sizeof(vec_t)) for the structure: NULL when the allocator fails.
NoStruct(w) == IF oom THEN {Err(Fail(w), 0)} ELSE {}

vec_new(w, v, es) ==
  IF es = 0 THEN {ExitOnly(w)}
  ELSE {Ok(SetVec(w, v, MkVec(0, 0, NoBlock)), 0)} \cup NoStruct(w)

vec_with_capacity(w, v, c, es) ==
  IF es = 0 THEN {ExitOnly(w)}
  ELSE IF c = 0 THEN vec_new(w, v, es)
  ELSE {IF m.p = NULL THEN Err(Fail(w), 1)
        ELSE Ok(SetVec(w, v, MkVec(0, c, m)), 1) : m \in Malloc(c)}
       \cup NoStruct(w)

\* Mutant: the loop that copies value into the slots is missing.
vec_with_value_unfilled(w, v, value, n, es) ==
  IF es = 0 THEN {ExitOnly(w)}
  ELSE IF n = 0 THEN vec_new(w, v, es)
  ELSE {IF m.p = NULL THEN Err(Fail(w), 1)
        ELSE Ok(SetVec(w, v, MkVec(n, n, m)), 1) : m \in Malloc(n)}
       \cup NoStruct(w)

vec_with_value(w, v, value, n, es) ==
  IF es = 0 THEN {ExitOnly(w)}
  ELSE IF n = 0 THEN vec_new(w, v, es)
  ELSE {IF m.p = NULL THEN Err(Fail(w), 1)
        ELSE Ok(SetVec(w, v, MkVec(n, n, Block(m.p, [i \in 1..n |-> value]))), 1)
          : m \in Malloc(n)}
       \cup NoStruct(w)

\* raw is NULL, or the block of n slots the caller allocated.  The block
\* vec_with_capacity allocated loses its only pointer.
vec_from_raw_parts(w, v, raw, n, es) ==
  IF es = 0 THEN {ExitOnly(w)}
  ELSE {LET lost == IF r.w.vecs[v].data # NULL THEN 1 ELSE 0
        IN IF r.ret = VEC_ERR THEN r
           ELSE IF raw.p = NULL
           THEN Res(Leak(SetVec(r.w, v, NoVec), lost), VEC_ERR, NoOut, FALSE,
                    r.calls, FALSE)
           ELSE Res(Leak(SetBlock(r.w, v, raw), lost), VEC_OK, NoOut, FALSE,
                    r.calls, FALSE)
          : r \in vec_with_capacity(w, v, n, es)}

\* ---- copy --------------------------------------------------------------
\* Mutant: other->len = self->len is forgotten.
vec_copy_keep_len(w, self, other) ==
  LET s == w.vecs[self]
      w1 == [w EXCEPT !.vecs[other].capacity = s.capacity]
  IN IF s.data = NULL THEN {Ok(w1, 0)}
     ELSE UNION {
            IF m.p = NULL
            THEN {Err(FailIf(SetBlock(w1, other, m), m, s.capacity), 2)}
            ELSE {Res(WriteRange(SetBlock(w1, other, m), other, 0, r),
                      VEC_OK, NoOut, RangeOob(w1, self, 0, s.capacity), 2, FALSE)
                    : r \in ReadRange(w1, self, 0, s.capacity)}
            : m \in Malloc(s.capacity)}

vec_copy(w, self, other) ==
  LET s == w.vecs[self]
      w1 == [w EXCEPT !.vecs[other].len = s.len,
                      !.vecs[other].capacity = s.capacity]
  IN IF s.data = NULL THEN {Ok(w1, 0)}
     ELSE UNION {
            IF m.p = NULL
            THEN {Err(FailIf(SetBlock(w1, other, m), m, s.capacity), 2)}
            ELSE {Res(WriteRange(SetBlock(w1, other, m), other, 0, r),
                      VEC_OK, NoOut, RangeOob(w1, self, 0, s.capacity), 2, FALSE)
                    : r \in ReadRange(w1, self, 0, s.capacity)}
            : m \in Malloc(s.capacity)}

\* ---- memory management -------------------------------------------------
\* self->capacity = c; self->data = realloc(self->data, c * elem_size);
\* return self->data ? VEC_OK : VEC_ERR
\* realloc fails: it returns NULL and leaves the block as it is; the
\* assignment to self->data loses the only pointer to it.
ReallocFails(w, v, c) ==
  IF oom /\ c <= MaxCap
  THEN {Err(Fail(Leak(SetBlock(SetCap(w, v, c), v, NoBlock), 1)), 1)}
  ELSE {}

\* Mutant: the block is replaced by a new one, its contents not carried over.
ReallocFresh(w, v, c) ==
  {Res(SetBlock(SetCap(w, v, c), v, m),
       IF m.p # NULL THEN VEC_OK ELSE VEC_ERR, NoOut, FALSE, 1, FALSE)
     : m \in Malloc(c)}

ReallocTo(w, v, c) ==
  {Res(SetBlock(SetCap(w, v, c), v, m),
       IF m.p # NULL THEN VEC_OK ELSE VEC_ERR, NoOut, FALSE, 1, FALSE)
     : m \in Realloc(w.vecs[v].cells, c)}
  \cup ReallocFails(w, v, c)

\* Mutant: the new capacity is assigned before new_capacity is tested.
vec_resize_assign_first(w, v, new_capacity) ==
  LET s == w.vecs[v]
  IN IF s.data = NULL THEN {Err(w, 0)}
     ELSE IF s.len > new_capacity THEN {Err(SetCap(w, v, new_capacity), 0)}
     ELSE IF s.capacity >= new_capacity THEN {Ok(w, 0)}
     ELSE ReallocTo(w, v, new_capacity)

vec_resize(w, v, new_capacity) ==
  LET s == w.vecs[v]
  IN IF s.data = NULL \/ s.len > new_capacity THEN {Err(w, 0)}
     ELSE IF s.capacity >= new_capacity THEN {Ok(w, 0)}
     ELSE ReallocTo(w, v, new_capacity)

\* Mutant: the test of self->data is missing.
vec_reserve_unchecked(w, v, additional) ==
  ReallocTo(w, v, w.vecs[v].capacity + additional)

vec_reserve(w, v, additional) ==
  LET s == w.vecs[v]
  IN IF s.data = NULL THEN {Err(w, 0)}
     ELSE ReallocTo(w, v, s.capacity + additional)

vec_shrink_to_fit(w, v) ==
  LET s == w.vecs[v]
  IN IF s.data = NULL THEN {Err(w, 0)}
     ELSE ReallocTo(w, v, s.len)

\* Mutant: clear resets len only, keeping the block and the capacity.
vec_clear_keep_block(w, v) == {Ok([w EXCEPT !.vecs[v].len = 0], 0)}

vec_clear(w, v) == {Ok(SetVec(w, v, MkVec(0, 0, NoBlock)), 1)}

\* Mutant: a new length of 0 only resets len.
vec_truncate_keep_block(w, v, new_len) ==
  LET s == w.vecs[v]
  IN IF s.data = NULL THEN {Err(w, 0)}
     ELSE IF new_len = 0 THEN {Ok([w EXCEPT !.vecs[v].len = 0], 0)}
     ELSE IF s.len >= new_len THEN {Ok(w, 0)}
     ELSE UNION {
            IF m.p = NULL THEN {Err(Fail(w), 1)}
            ELSE {Res(SetVec(w, v, MkVec(new_len, new_len, Block(m.p, r))),
                      VEC_OK, NoOut, RangeOob(w, v, 0, new_len), 2, FALSE)
                    : r \in ReadRange(w, v, 0, new_len)}
            : m \in Malloc(new_len)}

vec_truncate(w, v, new_len) ==
  LET s == w.vecs[v]
  IN IF s.data = NULL THEN {Err(w, 0)}
     ELSE IF new_len = 0 THEN {Ok(r.w, r.calls) : r \in vec_clear(w, v)}
     ELSE IF s.len >= new_len THEN {Ok(w, 0)}
     ELSE UNION {
            IF m.p = NULL THEN {Err(Fail(w), 1)}
            ELSE {Res(SetVec(w, v, MkVec(new_len, new_len, Block(m.p, r))),
                      VEC_OK, NoOut, RangeOob(w, v, 0, new_len), 2, FALSE)
                    : r \in ReadRange(w, v, 0, new_len)}
            : m \in Malloc(new_len)}

\* ---- mutation -----------------------------------------------------------
\* The first test of vec_push: a vector without a block gets one slot.
PushAlloc(w, v) ==
  IF w.vecs[v].data # NULL THEN {Ok(w, 0)}
  ELSE {IF m.p = NULL THEN Err(Fail(SetCap(w, v, 1)), 1)
        ELSE Ok(SetBlock(SetCap(w, v, 1), v, m), 1)
          : m \in Malloc(1)}

\* Mutant: the growth test is len > capacity.
GrowIfOver(w, v) ==
  IF w.vecs[v].len > w.vecs[v].capacity
  THEN vec_reserve(w, v, VEC_GROWTH_FACTOR)
  ELSE {Ok(w, 0)}

\* Mutant: every call reserves, whether the block is full or not.
GrowAlways(w, v) == vec_reserve(w, v, VEC_GROWTH_FACTOR)

\* if (self->len == self->capacity) vec_reserve(self, VEC_GROWTH_FACTOR)
GrowIfFull(w, v) ==
  IF w.vecs[v].len = w.vecs[v].capacity
  THEN vec_reserve(w, v, VEC_GROWTH_FACTOR)
  ELSE {Ok(w, 0)}

vec_push(w, v, elem) ==
  UNION {IF a.ret = VEC_ERR THEN {a}
         ELSE {IF g.ret = VEC_ERR THEN After(g, FALSE, a.calls)
               ELSE Res(IncLen(WriteSlot(g.w, v, g.w.vecs[v].len, elem), v, 1),
                        VEC_OK, NoOut, ~InBuf(g.w, v, g.w.vecs[v].len),
                        a.calls + g.calls, FALSE)
                 : g \in GrowIfFull(a.w, v)}
           : a \in PushAlloc(w, v)}

\* Mutant: the bounds test is index > len, so index = len is accepted.
vec_insert_upto_len(w, v, elem, index) ==
  LET s == w.vecs[v]
  IN IF index > s.len THEN {Panic(w, v)}
     ELSE IF s.data = NULL THEN {Err(w, 0)}
     ELSE UNION {
            IF g.ret = VEC_ERR THEN {g}
            ELSE LET n == s.len - index
                 IN {Res(IncLen(WriteSlot(WriteRange(g.w, v, index + 1, r),
                                          v, index, elem), v, 1),
                         VEC_OK, NoOut,
                         RangeOob(g.w, v, index, n + 1), g.calls, FALSE)
                       : r \in ReadRange(g.w, v, index, n)}
            : g \in GrowIfFull(w, v)}

vec_insert(w, v, elem, index) ==
  LET s == w.vecs[v]
  IN IF index >= s.len THEN {Panic(w, v)}
     ELSE IF s.data = NULL THEN {Err(w, 0)}
     ELSE UNION {
            IF g.ret = VEC_ERR THEN {g}
            ELSE LET n == s.len - index
                 IN {Res(IncLen(WriteSlot(WriteRange(g.w, v, index + 1, r),
                                          v, index, elem), v, 1),
                         VEC_OK, NoOut,
                         RangeOob(g.w, v, index, n + 1), g.calls, FALSE)
                       : r \in ReadRange(g.w, v, index, n)}
            : g \in GrowIfFull(w, v)}

\* Mutant: the element copied out is the first one.
vec_pop_first(w, v) ==
  LET s == w.vecs[v]
  IN IF s.data = NULL \/ s.len = 0 THEN {Err(w, 0)}
     ELSE {Res(IncLen(w, v, -1), VEC_OK, x, ~InBuf(w, v, 0), 0, FALSE)
             : x \in ReadSlot(w, v, 0)}

vec_pop(w, v) ==
  LET s == w.vecs[v]
  IN IF s.data = NULL \/ s.len = 0 THEN {Err(w, 0)}
     ELSE {Res(IncLen(w, v, -1), VEC_OK, x, ~InBuf(w, v, s.len - 1), 0, FALSE)
             : x \in ReadSlot(w, v, s.len - 1)}

\* Mutant: the source of the move is ptr itself, so nothing shifts.
ShiftNone(w, v, index) ==
  LET n == w.vecs[v].len - index
  IN {[w |-> IncLen(WriteRange(w, v, index, r), v, -1),
       oob |-> RangeOob(w, v, index, n)]
        : r \in ReadRange(w, v, index, n)}

\* memmove(ptr, ptr + elem_size, (len - index) * elem_size); len -= 1
ShiftLeft(w, v, index) ==
  LET n == w.vecs[v].len - index
  IN {[w |-> IncLen(WriteRange(w, v, index, r), v, -1),
       oob |-> RangeOob(w, v, index, n + 1)]
        : r \in ReadRange(w, v, index + 1, n)}

vec_delete(w, v, index) ==
  LET s == w.vecs[v]
  IN IF index >= s.len THEN {Panic(w, v)}
     ELSE IF s.data = NULL THEN {Err(w, 0)}
     ELSE {Res(m.w, VEC_OK, NoOut, m.oob, 0, FALSE) : m \in ShiftLeft(w, v, index)}

vec_remove(w, v, index) ==
  LET s == w.vecs[v]
  IN IF index >= s.len THEN {Panic(w, v)}
     ELSE IF s.data = NULL THEN {Err(w, 0)}
     ELSE UNION {{Res(m.w, VEC_OK, x, m.oob, 0, FALSE) : m \in ShiftLeft(w, v, index)}
                   : x \in ReadSlot(w, v, index)}

\* Mutant: last is taken at offset len instead of len - 1.
MovePastLast(w, v, index) ==
  LET l == w.vecs[v].len
  IN {[w |-> IncLen(WriteSlot(w, v, index, x), v, -1),
       oob |-> ~InBuf(w, v, l) \/ ~InBuf(w, v, index)]
        : x \in ReadSlot(w, v, l)}

\* memmove(ptr, last, elem_size); len -= 1
MoveLast(w, v, index) ==
  LET l == w.vecs[v].len - 1
  IN {[w |-> IncLen(WriteSlot(w, v, index, x), v, -1),
       oob |-> ~InBuf(w, v, l) \/ ~InBuf(w, v, index)]
        : x \in ReadSlot(w, v, l)}

\* Mutant: the block is shrunk to the new len after the removal.
vec_swap_delete_shrink(w, v, index) ==
  IF index >= w.vecs[v].len THEN {Panic(w, v)}
  ELSE IF w.vecs[v].data = NULL THEN {Err(w, 0)}
  ELSE UNION {{After(r, m.oob, 0) : r \in vec_shrink_to_fit(m.w, v)}
                : m \in MoveLast(w, v, index)}

vec_swap_delete(w, v, index) ==
  LET s == w.vecs[v]
  IN IF index >= s.len THEN {Panic(w, v)}
     ELSE IF s.data = NULL THEN {Err(w, 0)}
     ELSE {Res(m.w, VEC_OK, NoOut, m.oob, 0, FALSE) : m \in MoveLast(w, v, index)}

vec_swap_remove(w, v, index) ==
  LET s == w.vecs[v]
  IN IF index >= s.len THEN {Panic(w, v)}
     ELSE IF s.data = NULL THEN {Err(w, 0)}
     ELSE UNION {{Res(m.w, VEC_OK, x, m.oob, 0, FALSE) : m \in MoveLast(w, v, index)}
                   : x \in ReadSlot(w, v, index)}

\* Mutant: a destination that has a block is never grown.
AppendRoomNoGrow(w, self, other) ==
  LET s == w.vecs[self]
      o == w.vecs[other]
      w1 == SetCap([w EXCEPT !.vecs[self].len = 0], self, o.len)
  IN IF s.data = NULL
     THEN {IF m.p = NULL THEN Err(FailIf(w1, m, o.len), 1)
           ELSE Ok(SetBlock(w1, self, m), 1)
             : m \in Malloc(o.len)}
     ELSE {Ok(w, 0)}

\* The first branch of vec_append: self gets a block, or grows.
AppendRoom(w, self, other) ==
  LET s == w.vecs[self]
      o == w.vecs[other]
      w1 == SetCap([w EXCEPT !.vecs[self].len = 0], self, o.len)
  IN IF s.data = NULL
     THEN {IF m.p = NULL THEN Err(FailIf(w1, m, o.len), 1)
           ELSE Ok(SetBlock(w1, self, m), 1)
             : m \in Malloc(o.len)}
     ELSE IF s.len + o.len > s.capacity
     THEN vec_reserve(w, self, o.len)
     ELSE {Ok(w, 0)}

vec_append(w, self, other) ==
  LET o == w.vecs[other]
  IN IF o.data = NULL THEN {Err(w, 0)}
     ELSE UNION {
            IF g.ret = VEC_ERR THEN {g}
            ELSE LET at == g.w.vecs[self].len
                 IN UNION {{After(c, RangeOob(g.w, other, 0, o.len)
                                       \/ RangeOob(g.w, self, at, o.len), g.calls)
                              : c \in vec_clear(
                                   IncLen(WriteRange(g.w, self, at, r), self, o.len),
                                   other)}
                           : r \in ReadRange(g.w, other, 0, o.len)}
            : g \in AppendRoom(w, self, other)}

\* Mutant: an other that has a block is never grown.
SplitRoomNoGrow(w, self, other, n) ==
  LET o == w.vecs[other]
  IN IF o.data = NULL
     THEN {IF m.p = NULL THEN Err(FailIf(SetCap(w, other, n), m, n), 1)
           ELSE Ok(SetBlock(SetCap(w, other, n), other, m), 1)
             : m \in Malloc(n)}
     ELSE {Ok(w, 0)}

\* The first branch of vec_split_at: other gets a block, or grows.
SplitRoom(w, self, other, n) ==
  LET o == w.vecs[other]
  IN IF o.data = NULL
     THEN {IF m.p = NULL THEN Err(FailIf(SetCap(w, other, n), m, n), 1)
           ELSE Ok(SetBlock(SetCap(w, other, n), other, m), 1)
             : m \in Malloc(n)}
     ELSE IF o.len < n
     THEN vec_reserve(w, other, n)
     ELSE {Ok(w, 0)}

\* Mutant: self->len = index is forgotten.
vec_split_at_keep_len(w, self, other, index) ==
  LET s == w.vecs[self]
      n == s.len - index
  IN IF index >= s.len THEN {Panic(w, self)}
     ELSE IF s.data = NULL THEN {Err(w, 0)}
     ELSE UNION {
            IF g.ret = VEC_ERR THEN {g}
            ELSE {Res([WriteRange(g.w, other, 0, r)
                         EXCEPT !.vecs[other].len = n],
                      VEC_OK, NoOut,
                      RangeOob(g.w, self, index, n) \/ RangeOob(g.w, other, 0, n),
                      g.calls, FALSE)
                    : r \in ReadRange(g.w, self, index, n)}
            : g \in SplitRoom(w, self, other, n)}

vec_split_at(w, self, other, index) ==
  LET s == w.vecs[self]
      n == s.len - index
  IN IF index >= s.len THEN {Panic(w, self)}
     ELSE IF s.data = NULL THEN {Err(w, 0)}
     ELSE UNION {
            IF g.ret = VEC_ERR THEN {g}
            ELSE {Res([WriteRange(g.w, other, 0, r)
                         EXCEPT !.vecs[other].len = n, !.vecs[self].len = index],
                      VEC_OK, NoOut,
                      RangeOob(g.w, self, index, n) \/ RangeOob(g.w, other, 0, n),
                      g.calls, FALSE)
                    : r \in ReadRange(g.w, self, index, n)}
            : g \in SplitRoom(w, self, other, n)}

\* malloc of the temporary fails: its result is not tested, and the memcpy
\* through NULL ends the program.
TmpFails(w) ==
  IF oom THEN {Res(Fail(w), NoRet, NoOut, TRUE, 1, TRUE)} ELSE {}

\* Mutant: the element at index1 is not saved before it is overwritten.
vec_swap_unsaved(w, v, index1, index2) ==
  LET s == w.vecs[v]
  IN IF index1 >= s.len \/ index2 >= s.len THEN {Panic(w, v)}
     ELSE IF s.data = NULL THEN {Err(w, 0)}
     ELSE {Res(WriteSlot(w, v, index1, y), VEC_OK, NoOut,
               ~InBuf(w, v, index1) \/ ~InBuf(w, v, index2), 2, FALSE)
             : y \in ReadSlot(w, v, index2)}

\* tmp = malloc(elem_size); the three copies; free(tmp).
vec_swap(w, v, index1, index2) ==
  LET s == w.vecs[v]
  IN IF index1 >= s.len \/ index2 >= s.len THEN {Panic(w, v)}
     ELSE IF s.data = NULL THEN {Err(w, 0)}
     ELSE UNION {{Res(WriteSlot(WriteSlot(w, v, index1, y), v, index2, x),
                      VEC_OK, NoOut,
                      ~InBuf(w, v, index1) \/ ~InBuf(w, v, index2), 2, FALSE)
                    : y \in ReadSlot(w, v, index2)}
                  : x \in ReadSlot(w, v, index1)}
          \cup TmpFails(w)

\* Mutant: the loop runs over every index, not over the first half.
RECURSIVE ReverseWhole(_, _, _)
ReverseWhole(w, v, i) ==
  IF i >= w.vecs[v].len THEN {Ok(w, 0)}
  ELSE UNION {IF r.exited \/ r.ret = VEC_ERR THEN {r}
              ELSE {After(t, r.oob, r.calls) : t \in ReverseWhole(r.w, v, i + 1)}
                : r \in vec_swap(w, v, i, w.vecs[v].len - i - 1)}

\* The loop of vec_reverse from iteration i on.
RECURSIVE ReverseFrom(_, _, _)
ReverseFrom(w, v, i) ==
  IF i >= w.vecs[v].len \div 2 THEN {Ok(w, 0)}
  ELSE UNION {IF r.exited \/ r.ret = VEC_ERR THEN {r}
              ELSE {After(t, r.oob, r.calls) : t \in ReverseFrom(r.w, v, i + 1)}
                : r \in vec_swap(w, v, i, w.vecs[v].len - i - 1)}

vec_reverse(w, v) ==
  IF w.vecs[v].data = NULL THEN {Err(w, 0)} ELSE ReverseFrom(w, v, 0)

\* ---- lookups -------------------------------------------------------------
\* memcmp of two elements: 0 when they are equal.
Memcmp(x, y) == IF x = y THEN 0 ELSE IF x < y THEN 0 - 1 ELSE 1

\* The loop of vec_contains and vec_search from index i on: the pairs
\* <<i, contains>> it can end with.
RECURSIVE ScanFrom(_, _, _, _, _)
ScanFrom(w, v, value, i, contains) ==
  IF i < w.vecs[v].len /\ contains # 0
  THEN UNION {ScanFrom(w, v, value, i + 1, Memcmp(x, value))
                : x \in ReadSlot(w, v, i)}
  ELSE {<<i, contains>>}

\* Whether the loop read a slot outside the block.
ScanOob(w, v, s) == \E i \in 0..(s[1] - 1) : ~InBuf(w, v, i)

vec_contains(w, v, value) ==
  IF w.vecs[v].data = NULL THEN {Err(w, 0)}
  ELSE {Res(w, IF s[2] = 0 THEN 1 ELSE 0, NoOut, ScanOob(w, v, s), 0, FALSE)
          : s \in ScanFrom(w, v, value, 0, 1)}

\* Mutant: the index after the match is returned.
vec_search_past_match(w, v, value) ==
  IF w.vecs[v].data = NULL THEN {Err(w, 0)}
  ELSE {Res(w, IF s[2] = 0 THEN s[1] ELSE 0 - 1, NoOut,
            ScanOob(w, v, s), 0, FALSE)
          : s \in ScanFrom(w, v, value, 0, 1)}

vec_search(w, v, value) ==
  IF w.vecs[v].data = NULL THEN {Err(w, 0)}
  ELSE {Res(w, IF s[2] = 0 THEN s[1] - 1 ELSE 0 - 1, NoOut,
            ScanOob(w, v, s), 0, FALSE)
          : s \in ScanFrom(w, v, value, 0, 1)}

vec_is_empty(w, v) ==
  {Res(w, IF w.vecs[v].len = 0 THEN 1 ELSE 0, NoOut, FALSE, 0, FALSE)}

\* Mutant: the index is tested against capacity.
vec_peek_within_capacity(w, v, index) ==
  IF index >= w.vecs[v].capacity THEN {Panic(w, v)}
  ELSE IF w.vecs[v].data = NULL THEN {Res(w, NULL, NoOut, FALSE, 0, FALSE)}
  ELSE {Res(w, PTR, x, ~InBuf(w, v, index), 0, FALSE) : x \in ReadSlot(w, v, index)}

\* The pointer returned is modelled by ret (NULL or not) and by the element
\* it points to (out).
vec_peek(w, v, index) ==
  IF index >= w.vecs[v].len THEN {Panic(w, v)}
  ELSE IF w.vecs[v].data = NULL THEN {Res(w, NULL, NoOut, FALSE, 0, FALSE)}
  ELSE {Res(w, PTR, x, ~InBuf(w, v, index), 0, FALSE) : x \in ReadSlot(w, v, index)}

\* ---- the state machine --------------------------------------------------
\* vecs: the arrays behind the two handles; leaked: the number of orphaned
\* blocks; exited: the program has called exit(); last: the call that has
\* just returned (its arguments, its result and the world it was made in),
\* or Idle once the caller has moved on.  run: the account of a run of
\* pushes onto one empty array (see PushSpec); it stays NoRun in Spec.
VARIABLES vecs, leaked, exited, last, run
vars == <<vecs, leaked, exited, last, run, oom>>

\* The world the functions act on.
W == [vecs |-> vecs, leaked |-> leaked, failed |-> FALSE]

InitW == [vecs |-> [v \in Vecs |-> NoVec], leaked |-> 0, failed |-> FALSE]
Idle == [op |-> "idle", a |-> "v1", b |-> "v1", idx |-> 0, idx2 |-> 0,
         val |-> 0, ret |-> NoRet, out |-> NoOut, oob |-> FALSE, calls |-> 0,
         failed |-> FALSE, pre |-> InitW]

\* The account of a run of pushes: the growth constant in force, the len
\* and capacity of the array, whether it has a block, the allocator calls
\* made and the elements copied so far.
NoRun == [growth |-> VEC_GROWTH_FACTOR, len |-> 0, capacity |-> 0,
          data |-> NULL, reallocs |-> 0, copied |-> 0]

Init ==
  /\ vecs = InitW.vecs
  /\ leaked = InitW.leaked
  /\ exited = FALSE
  /\ last = Idle
  /\ run = NoRun
  /\ oom = FALSE

\* One call: some result of R becomes the state; last records the call,
\* what it returned and the world it was made in.
Call(op, a, b, idx, idx2, val, R) ==
  /\ ~exited
  /\ last = Idle
  /\ \E r \in R :
       /\ r.w.leaked <= MaxLeak
       /\ vecs' = r.w.vecs
       /\ leaked' = r.w.leaked
       /\ exited' = r.exited
       /\ last' = [op |-> op, a |-> a, b |-> b, idx |-> idx, idx2 |-> idx2,
                   val |-> val, ret |-> r.ret, out |-> r.out, oob |-> r.oob,
                   calls |-> r.calls, failed |-> r.w.failed, pre |-> W]
  /\ UNCHANGED <<run, oom>>

Live(v) == vecs[v].alloc
Sizes == 0..MaxCap
ElemSizes == {0, ElemSize}
\* The index arguments tried on v: its valid indexes and the first invalid
\* one (a larger index takes the same branch of every function).
Indexes(v) == 0..vecs[v].len

DoNew == \E v \in Vecs, es \in ElemSizes :
  /\ ~Live(v) /\ Call("new", v, v, 0, 0, es, vec_new(W, v, es))
DoWithCapacity == \E v \in Vecs, c \in Sizes, es \in ElemSizes :
  /\ ~Live(v) /\ Call("with_capacity", v, v, c, 0, es, vec_with_capacity(W, v, c, es))
DoWithValue == \E v \in Vecs, x \in Vals, n \in Sizes, es \in ElemSizes :
  /\ ~Live(v) /\ Call("with_value", v, v, n, es, x, vec_with_value(W, v, x, n, es))
\* The caller passes NULL (idx2 = 0), or a block of n elements it has
\* allocated (idx2 = 1).
DoFromRawParts == \E v \in Vecs, n \in Sizes, es \in ElemSizes :
  /\ ~Live(v)
  /\ \/ Call("from_raw_parts", v, v, n, 0, es,
             vec_from_raw_parts(W, v, NoBlock, n, es))
     \/ \E c \in Fills(n) :
          Call("from_raw_parts", v, v, n, 1, es,
               vec_from_raw_parts(W, v, Block(PTR, c), n, es))
DoDrop == \E v \in Vecs :
  /\ Live(v)
  /\ Call("drop", v, v, 0, 0, 0, {Res(vec_drop(W, v), NoRet, NoOut, FALSE, 1, FALSE)})
DoCopy == \E v \in Vecs, o \in Vecs :
  /\ Live(v) /\ Live(o) /\ v # o
  /\ Call("copy", v, o, 0, 0, 0, vec_copy(W, v, o))
DoResize == \E v \in Vecs, n \in Sizes :
  /\ Live(v) /\ Call("resize", v, v, n, 0, 0, vec_resize(W, v, n))
DoReserve == \E v \in Vecs, n \in Sizes :
  /\ Live(v) /\ Call("reserve", v, v, n, 0, 0, vec_reserve(W, v, n))
DoShrinkToFit == \E v \in Vecs :
  /\ Live(v) /\ Call("shrink_to_fit", v, v, 0, 0, 0, vec_shrink_to_fit(W, v))
DoTruncate == \E v \in Vecs, n \in Sizes :
  /\ Live(v) /\ Call("truncate", v, v, n, 0, 0, vec_truncate(W, v, n))
DoClear == \E v \in Vecs :
  /\ Live(v) /\ Call("clear", v, v, 0, 0, 0, vec_clear(W, v))
DoPush == \E v \in Vecs, x \in Vals :
  /\ Live(v) /\ Call("push", v, v, 0, 0, x, vec_push(W, v, x))
DoInsert == \E v \in Vecs : \E x \in Vals, i \in Indexes(v) :
  /\ Live(v) /\ Call("insert", v, v, i, 0, x, vec_insert(W, v, x, i))
DoPop == \E v \in Vecs :
  /\ Live(v) /\ Call("pop", v, v, 0, 0, 0, vec_pop(W, v))
DoDelete == \E v \in Vecs : \E i \in Indexes(v) :
  /\ Live(v) /\ Call("delete", v, v, i, 0, 0, vec_delete(W, v, i))
DoRemove == \E v \in Vecs : \E i \in Indexes(v) :
  /\ Live(v) /\ Call("remove", v, v, i, 0, 0, vec_remove(W, v, i))
DoSwapDelete == \E v \in Vecs : \E i \in Indexes(v) :
  /\ Live(v) /\ Call("swap_delete", v, v, i, 0, 0, vec_swap_delete(W, v, i))
DoSwapRemove == \E v \in Vecs : \E i \in Indexes(v) :
  /\ Live(v) /\ Call("swap_remove", v, v, i, 0, 0, vec_swap_remove(W, v, i))
DoAppend == \E v \in Vecs, o \in Vecs :
  /\ Live(v) /\ Live(o) /\ v # o
  /\ Call("append", v, o, 0, 0, 0, vec_append(W, v, o))
DoSplitAt == \E v \in Vecs, o \in Vecs : \E i \in Indexes(v) :
  /\ Live(v) /\ Live(o) /\ v # o
  /\ Call("split_at", v, o, i, 0, 0, vec_split_at(W, v, o, i))
DoSwap == \E v \in Vecs : \E i \in Indexes(v), j \in Indexes(v) :
  /\ Live(v) /\ Call("swap", v, v, i, j, 0, vec_swap(W, v, i, j))
DoReverse == \E v \in Vecs :
  /\ Live(v) /\ Call("reverse", v, v, 0, 0, 0, vec_reverse(W, v))

DoContains == \E v \in Vecs, x \in Vals :
  /\ Live(v) /\ Call("contains", v, v, 0, 0, x, vec_contains(W, v, x))
DoSearch == \E v \in Vecs, x \in Vals :
  /\ Live(v) /\ Call("search", v, v, 0, 0, x, vec_search(W, v, x))
DoIsEmpty == \E v \in Vecs :
  /\ Live(v) /\ Call("is_empty", v, v, 0, 0, 0, vec_is_empty(W, v))
DoPeek == \E v \in Vecs : \E i \in Indexes(v) :
  /\ Live(v) /\ Call("peek", v, v, i, 0, 0, vec_peek(W, v, i))

\* The caller takes the result of the call and goes on to its next call.
\* A run is followed up to its first call in which the allocator failed.
Return ==
  /\ ~exited
  /\ last # Idle
  /\ ~last.failed
  /\ last' = Idle
  /\ UNCHANGED <<vecs, leaked, exited, run, oom>>

Next ==
  \/ DoNew \/ DoWithCapacity \/ DoWithValue \/ DoFromRawParts \/ DoDrop
  \/ DoCopy \/ DoResize \/ DoReserve \/ DoShrinkToFit \/ DoTruncate \/ DoClear
  \/ DoPush \/ DoInsert \/ DoPop \/ DoDelete \/ DoRemove \/ DoSwapDelete \/ DoSwapRemove
  \/ DoAppend \/ DoSplitAt \/ DoSwap \/ DoReverse
  \/ DoContains \/ DoSearch \/ DoIsEmpty \/ DoPeek
  \/ Return

Spec == Init /\ [][Next]_vars

\* The same program with an allocator that may fail at any call.
FailInit ==
  /\ vecs = InitW.vecs
  /\ leaked = InitW.leaked
  /\ exited = FALSE
  /\ last = Idle
  /\ run = NoRun
  /\ oom = TRUE

FailSpec == FailInit /\ [][Next]_vars

\* ---- a run of pushes -----------------------------------------------------
\* vec_push on the account a, contents left out: an array without a block
\* gets one slot from malloc; a full one is grown by the growth constant
\* with realloc, which in the worst case moves its len elements to a new
\* block; then one element is copied in.
PushCost(a) ==
  LET b == IF a.data = NULL
           THEN [a EXCEPT !.capacity = 1, !.data = PTR, !.reallocs = a.reallocs + 1]
           ELSE a
      c == IF b.len = b.capacity
           THEN [b EXCEPT !.capacity = b.capacity + b.growth,
                          !.reallocs = b.reallocs + 1,
                          !.copied = b.copied + b.len]
           ELSE b
  IN [c EXCEPT !.len = c.len + 1, !.copied = c.copied + 1]

\* The run starts from vec_new, with some value of the growth constant.
PushInit ==
  /\ vecs = InitW.vecs
  /\ leaked = InitW.leaked
  /\ exited = FALSE
  /\ last = Idle
  /\ \E g \in 1..MaxGrowth : run = [NoRun EXCEPT !.growth = g]
  /\ oom = FALSE

PushOne ==
  /\ run.len < MaxPushes
  /\ run' = PushCost(run)
  /\ UNCHANGED <<vecs, leaked, exited, last, oom>>

PushNext == PushOne

PushSpec == PushInit /\ [][PushNext]_vars

\* ---- properties ---------------------------------------------------------
\* The array v before and after the call recorded in last.
Pre(v) == last.pre.vecs[v]
PreElems(v) == Elems(last.pre, v)
CurElems(v) == Elems(W, v)
Returned(op) == last.op = op /\ ~exited

\* C1: after every call of any sequence of calls, every array has
\* len <= capacity.
LenWithinCapacity ==
  \A v \in Vecs : Live(v) => vecs[v].len <= vecs[v].capacity
\* A split has just filled the other array up to its capacity.
LenWithinCapacityWitness ==
  /\ Returned("split_at") /\ last.ret = VEC_OK
  /\ vecs[last.b].len = vecs[last.b].capacity
  /\ vecs[last.b].len >= 2
  /\ Pre(last.b).data # NULL

InsertAt(s, i, x) == SubSeq(s, 1, i) \o <<x>> \o SubSeq(s, i + 1, Len(s))
RemoveAt(s, i) == SubSeq(s, 1, i) \o SubSeq(s, i + 2, Len(s))

\* The effect vec_insert has when it accepts the index.
Inserted ==
  /\ ~exited
  /\ last.ret = VEC_OK
  /\ vecs[last.a].len = Pre(last.a).len + 1
  /\ CurElems(last.a) = InsertAt(PreElems(last.a), last.idx, last.val)

\* C4 as stated: vec_insert accepts every index <= len and inserts there.
InsertAcceptsUpToLen ==
  last.op = "insert" /\ last.idx <= Pre(last.a).len => Inserted
\* C4 amended: vec_insert accepts every index < len and inserts there; with
\* index = len (index 0 of an empty array too) it frees the array and ends
\* the program.
InsertBelowLen ==
  last.op = "insert" =>
    IF last.idx < Pre(last.a).len
    THEN Inserted
    ELSE exited /\ ~Live(last.a)
\* An insert before the end of a full array (it had to grow), of an
\* element different from the one it displaces.
InsertBelowLenWitness ==
  /\ Returned("insert") /\ last.ret = VEC_OK
  /\ last.idx < Pre(last.a).len
  /\ Pre(last.a).len = Pre(last.a).capacity
  /\ last.val # PreElems(last.a)[last.idx + 1]
  /\ CurElems(last.a) = InsertAt(PreElems(last.a), last.idx, last.val)

\* C5: vec_pop on a non-empty array copies the last element out, takes 1
\* off len and leaves capacity, the block and the other elements alone; on
\* an empty array it returns VEC_ERR and changes nothing.
PopTakesLast ==
  last.op = "pop" =>
    /\ ~exited
    /\ IF Pre(last.a).len > 0
       THEN /\ last.ret = VEC_OK
            /\ last.out = PreElems(last.a)[Pre(last.a).len]
            /\ vecs[last.a] = [Pre(last.a) EXCEPT !.len = Pre(last.a).len - 1]
            /\ CurElems(last.a) = SubSeq(PreElems(last.a), 1, Pre(last.a).len - 1)
            /\ last.calls = 0
       ELSE last.ret = VEC_ERR /\ W = last.pre
\* A pop from an array of at least two elements whose last two differ.
PopTakesLastWitness ==
  /\ Returned("pop") /\ last.ret = VEC_OK
  /\ Pre(last.a).len >= 2
  /\ last.out # PreElems(last.a)[Pre(last.a).len - 1]
  /\ vecs[last.a].len = Pre(last.a).len - 1

\* C6: vec_delete and vec_remove with index < len take 1 off len and keep
\* the other elements in their order; vec_remove writes the element
\* formerly at index to out.
DeleteKeepsOrder ==
  last.op \in {"delete", "remove"} /\ last.idx < Pre(last.a).len =>
    /\ ~exited
    /\ vecs[last.a].len = Pre(last.a).len - 1
    /\ CurElems(last.a) = RemoveAt(PreElems(last.a), last.idx)
    /\ last.op = "remove" => last.out = PreElems(last.a)[last.idx + 1]
\* A removal before the end of a full array whose elements differ.
DeleteKeepsOrderWitness ==
  /\ Returned("remove") /\ last.ret = VEC_OK
  /\ Pre(last.a).len = Pre(last.a).capacity
  /\ Pre(last.a).len >= 3 /\ last.idx = 1
  /\ PreElems(last.a)[1] # PreElems(last.a)[3]
  /\ CurElems(last.a) = RemoveAt(PreElems(last.a), last.idx)

\* C7: vec_swap_delete and vec_swap_remove with index < len put the former
\* last element in slot index, take 1 off len and leave every other live
\* slot alone; vec_swap_remove writes the element formerly at index to out.
SwapDeleteMovesLast ==
  last.op \in {"swap_delete", "swap_remove"} /\ last.idx < Pre(last.a).len =>
    LET old == PreElems(last.a)
        n == Pre(last.a).len
    IN /\ ~exited
       /\ vecs[last.a].len = n - 1
       /\ CurElems(last.a) = SubSeq([old EXCEPT ![last.idx + 1] = old[n]], 1, n - 1)
       /\ last.op = "swap_remove" => last.out = old[last.idx + 1]
\* A swap-removal before the end of an array of three, with the element
\* removed different from the last one.
SwapDeleteMovesLastWitness ==
  /\ Returned("swap_remove") /\ last.ret = VEC_OK
  /\ Pre(last.a).len >= 3 /\ last.idx = 0
  /\ PreElems(last.a)[1] # PreElems(last.a)[3]
  /\ CurElems(last.a)[1] = PreElems(last.a)[3]
  /\ last.out = PreElems(last.a)[1]

\* An array that holds nothing: len 0, capacity 0, no block.
Emptied(r) == r.len = 0 /\ r.capacity = 0 /\ r.data = NULL
\* The effect of a successful vec_append(a, b).
Appended ==
  /\ last.ret = VEC_OK
  /\ CurElems(last.a) = PreElems(last.a) \o PreElems(last.b)
  /\ vecs[last.a].len = Pre(last.a).len + Pre(last.b).len
  /\ Emptied(vecs[last.b])

\* C8 as stated: vec_append on any two distinct arrays, a source without a
\* block included, returns VEC_OK, moves the source's elements behind the
\* destination's and leaves the source empty.
AppendAlwaysSucceeds == last.op = "append" => Appended
\* C8 amended: that holds when the source has a block and (the destination
\* has one or the source is not empty); a source without a block makes
\* vec_append return VEC_ERR and change nothing; with a destination without
\* a block and an empty source the call succeeds as stated or, when
\* malloc(0) returns NULL, returns VEC_ERR.
AppendNeedsSourceBlock ==
  last.op = "append" =>
    IF Pre(last.b).data = NULL
    THEN last.ret = VEC_ERR /\ W = last.pre
    ELSE IF Pre(last.a).data # NULL \/ Pre(last.b).len > 0
    THEN Appended
    ELSE Appended \/ (last.ret = VEC_ERR /\ vecs[last.a].len = 0)
\* An append of two elements behind one, into a block that had to grow.
AppendNeedsSourceBlockWitness ==
  /\ Returned("append") /\ last.ret = VEC_OK
  /\ Pre(last.a).len = 1 /\ Pre(last.a).capacity = 1
  /\ Pre(last.b).len = 2
  /\ PreElems(last.b)[1] # PreElems(last.b)[2]
  /\ CurElems(last.a) = PreElems(last.a) \o PreElems(last.b)
  /\ Emptied(vecs[last.b])

\* C9: vec_split_at(a, b, index) with index < len leaves a with its former
\* elements [0, index) and b with a's former elements [index, len), in
\* order, whatever b held.
SplitMovesTail ==
  last.op = "split_at" /\ last.idx < Pre(last.a).len =>
    LET old == PreElems(last.a)
    IN /\ ~exited
       /\ vecs[last.a].len = last.idx
       /\ CurElems(last.a) = SubSeq(old, 1, last.idx)
       /\ vecs[last.b].len = Len(old) - last.idx
       /\ CurElems(last.b) = SubSeq(old, last.idx + 1, Len(old))
\* A split of three elements after the first, into an array that held one
\* element in a smaller block.
SplitMovesTailWitness ==
  /\ Returned("split_at") /\ last.ret = VEC_OK
  /\ Pre(last.a).len = 3 /\ last.idx = 1
  /\ PreElems(last.a)[2] # PreElems(last.a)[3]
  /\ Pre(last.b).len = 1 /\ Pre(last.b).capacity = 1
  /\ CurElems(last.b) = SubSeq(PreElems(last.a), 2, 3)
  /\ CurElems(last.a) = SubSeq(PreElems(last.a), 1, 1)

\* C10: in the state a successful vec_split_at(a, b, k) leaves, every
\* outcome of vec_append(a, b) returns a's elements to what they were
\* before the split and leaves b empty.
SplitThenAppendRestores ==
  Returned("split_at") /\ last.idx < Pre(last.a).len =>
    /\ vec_append(W, last.a, last.b) # {}
    /\ \A r \in vec_append(W, last.a, last.b) :
         /\ r.ret = VEC_OK
         /\ Elems(r.w, last.a) = PreElems(last.a)
         /\ r.w.vecs[last.a].len = Pre(last.a).len
         /\ Emptied(r.w.vecs[last.b])
\* After a split of three differing elements in the middle, into an array
\* that held elements of its own, the append restores the three.
SplitThenAppendRestoresWitness ==
  /\ Returned("split_at") /\ last.ret = VEC_OK
  /\ Pre(last.a).len = 3 /\ last.idx = 1
  /\ PreElems(last.a)[1] # PreElems(last.a)[2]
  /\ Pre(last.b).len >= 1
  /\ vecs[last.a].len = 1 /\ vecs[last.b].len = 2
  /\ \E r \in vec_append(W, last.a, last.b) :
       r.ret = VEC_OK /\ Elems(r.w, last.a) = PreElems(last.a)

\* C11: after vec_copy(a, b) returns VEC_OK, b has a's len and capacity, b's
\* elements are a's, index by index, and a is unchanged.
CopyMakesEqual ==
  last.op = "copy" /\ last.ret = VEC_OK =>
    /\ ~exited
    /\ vecs[last.b].len = Pre(last.a).len
    /\ vecs[last.b].capacity = Pre(last.a).capacity
    /\ CurElems(last.b) = PreElems(last.a)
    /\ vecs[last.a] = Pre(last.a)
\* A copy of two differing elements over an array that held other content.
CopyMakesEqualWitness ==
  /\ Returned("copy") /\ last.ret = VEC_OK
  /\ Pre(last.a).len = 2
  /\ PreElems(last.a)[1] # PreElems(last.a)[2]
  /\ Pre(last.b).len >= 1
  /\ PreElems(last.b)[1] # PreElems(last.a)[1]
  /\ CurElems(last.b) = PreElems(last.a)

TruncateCutsToNewLen ==
  last.op = "truncate" /\ last.idx > 0 /\ Pre(last.a).data # NULL =>
    /\ ~exited
    /\ IF last.idx >= Pre(last.a).len
       THEN /\ vecs[last.a].len = Pre(last.a).len
            /\ vecs[last.a].capacity = Pre(last.a).capacity
            /\ CurElems(last.a) = PreElems(last.a)
       ELSE /\ vecs[last.a].len = last.idx
            /\ vecs[last.a].capacity = last.idx
            /\ CurElems(last.a) = SubSeq(PreElems(last.a), 1, last.idx)

\* C14: vec_resize(new_capacity) on an array with a block returns VEC_ERR
\* when new_capacity < len, returns VEC_OK and changes nothing when
\* len <= new_capacity <= capacity, and returns VEC_OK with capacity =
\* new_capacity, len and the elements unchanged, when new_capacity > capacity.
ResizeKeepsElems ==
  last.op = "resize" /\ Pre(last.a).data # NULL =>
    /\ ~exited
    /\ IF last.idx < Pre(last.a).len THEN last.ret = VEC_ERR
       ELSE IF last.idx <= Pre(last.a).capacity
       THEN last.ret = VEC_OK /\ W = last.pre
       ELSE /\ last.ret = VEC_OK
            /\ vecs[last.a].capacity = last.idx
            /\ vecs[last.a].len = Pre(last.a).len
            /\ CurElems(last.a) = PreElems(last.a)
\* A resize that grows the block of an array of two differing elements.
ResizeKeepsElemsWitness ==
  /\ Returned("resize") /\ last.ret = VEC_OK
  /\ Pre(last.a).len = 2 /\ last.idx > Pre(last.a).capacity
  /\ PreElems(last.a)[1] # PreElems(last.a)[2]
  /\ vecs[last.a].capacity = last.idx
  /\ CurElems(last.a) = PreElems(last.a)

\* C15 as stated: on an array without a block, vec_resize(n) and
\* vec_reserve(n) with n > 0 succeed and leave capacity >= n with a block.
NoBlockResizeSucceeds ==
  last.op \in {"resize", "reserve"} /\ Pre(last.a).data = NULL /\ last.idx > 0 =>
    /\ last.ret = VEC_OK
    /\ vecs[last.a].capacity >= last.idx
    /\ vecs[last.a].data # NULL
\* C15 amended: on an array without a block, vec_resize(n) and
\* vec_reserve(n) with n > 0 return VEC_ERR and change nothing.
NoBlockResizeRefused ==
  last.op \in {"resize", "reserve"} /\ Pre(last.a).data = NULL /\ last.idx > 0 =>
    /\ ~exited
    /\ last.ret = VEC_ERR
    /\ last.calls = 0
    /\ W = last.pre
\* A reserve on an array without a block.
NoBlockResizeRefusedWitness ==
  /\ Returned("reserve") /\ last.idx > 0
  /\ Live(last.a) /\ Emptied(Pre(last.a))
  /\ last.ret = VEC_ERR /\ Emptied(vecs[last.a])

\* What a call's result shows of array v: the value returned, len, capacity
\* and the live elements.
Shown(r, v) ==
  <<r.ret, r.w.vecs[v].len, r.w.vecs[v].capacity, Elems(r.w, v)>>

\* C16: in every state, for every additional >= 0, vec_reserve(additional)
\* and vec_resize(capacity + additional) have the same outcomes: the same
\* value returned, len, capacity and elements.
ReserveIsResize ==
  ~exited =>
    \A v \in Vecs : Live(v) =>
      \A additional \in Sizes :
        {Shown(r, v) : r \in vec_reserve(W, v, additional)}
          = {Shown(r, v) : r \in vec_resize(W, v, vecs[v].capacity + additional)}

\* C17: vec_shrink_to_fit on an array with a block returns VEC_OK, sets
\* capacity to len and leaves len and the elements unchanged, for len = 0
\* too.
ShrinkSetsCapacityToLen ==
  last.op = "shrink_to_fit" /\ Pre(last.a).data # NULL =>
    /\ ~exited
    /\ last.ret = VEC_OK
    /\ vecs[last.a].capacity = Pre(last.a).len
    /\ vecs[last.a].len = Pre(last.a).len
    /\ CurElems(last.a) = PreElems(last.a)

\* C18: vec_push and vec_insert allocate only when len = capacity: with
\* len < capacity they make no allocator call and leave capacity and the
\* block as they are; with len = capacity the capacity afterwards is
\* strictly greater.
GrowOnlyWhenFull ==
  last.op \in {"push", "insert"} /\ ~exited =>
    IF Pre(last.a).len < Pre(last.a).capacity
    THEN /\ last.calls = 0
         /\ vecs[last.a].capacity = Pre(last.a).capacity
         /\ vecs[last.a].data = Pre(last.a).data
         /\ Len(vecs[last.a].cells) = Len(Pre(last.a).cells)
    ELSE vecs[last.a].capacity > Pre(last.a).capacity
\* The second push onto an array made with capacity 1: it had to grow.
GrowOnlyWhenFullWitness ==
  /\ Returned("push") /\ last.ret = VEC_OK
  /\ Pre(last.a).len = 1 /\ Pre(last.a).capacity = 1
  /\ last.calls >= 1
  /\ vecs[last.a].capacity > 1

\* C19: vec_pop, vec_delete, vec_remove, vec_swap_delete and
\* vec_swap_remove make no allocator call and leave capacity and the block
\* as they are, and a push after a removal makes no allocator call either.
RemovalsKeepCapacity ==
  last.op \in {"pop", "delete", "remove", "swap_delete", "swap_remove"} /\ ~exited =>
    /\ last.calls = 0
    /\ vecs[last.a].capacity = Pre(last.a).capacity
    /\ vecs[last.a].data = Pre(last.a).data
    /\ Len(vecs[last.a].cells) = Len(Pre(last.a).cells)
    /\ last.ret = VEC_OK =>
         \A x \in Vals : \A r \in vec_push(W, last.a, x) :
           /\ r.ret = VEC_OK /\ r.calls = 0
           /\ r.w.vecs[last.a].capacity = Pre(last.a).capacity
           /\ r.w.vecs[last.a].len = Pre(last.a).len
\* A removal that empties an array, which keeps its block.
RemovalsKeepCapacityWitness ==
  /\ Returned("swap_delete") /\ last.ret = VEC_OK
  /\ Pre(last.a).len = 1 /\ vecs[last.a].len = 0
  /\ vecs[last.a].capacity = Pre(last.a).capacity
  /\ vecs[last.a].capacity >= 2
  /\ vecs[last.a].data # NULL

\* C20: a run of N pushes onto an empty array copies a number of elements
\* linear in N, whatever the growth constant: at most 3 per push, the
\* bound a block that doubles when full keeps.
PushesCopyLinear == run.copied <= 3 * run.len
\* The account PushCost keeps agrees with vec_push: same len, capacity and
\* number of allocator calls.
PushCostAgrees ==
  Returned("push") =>
    LET a == PushCost([NoRun EXCEPT !.len = Pre(last.a).len,
                                    !.capacity = Pre(last.a).capacity,
                                    !.data = Pre(last.a).data])
    IN /\ a.len = vecs[last.a].len
       /\ a.capacity = vecs[last.a].capacity
       /\ a.reallocs = last.calls

\* C21: vec_new gives len 0, capacity 0, no block, without an allocator call
\* for a block; vec_with_capacity(0) gives the state vec_new gives;
\* vec_with_capacity(c), c > 0, gives len 0, capacity c and a block;
\* vec_with_value(value, n), n > 0, gives len = capacity = n and n elements
\* equal to value; every constructor called with element size 0 ends the
\* program.
ConstructorsEstablish ==
  LET es == IF last.op = "with_value" THEN last.idx2 ELSE last.val
  IN last.op \in {"new", "with_capacity", "with_value", "from_raw_parts"} =>
       IF es = 0 THEN exited /\ W = last.pre
       ELSE /\ ~exited
            /\ last.op = "new" \/ (last.op \in {"with_capacity", "with_value"} /\ last.idx = 0) =>
                 /\ vecs[last.a] = MkVec(0, 0, NoBlock)
                 /\ last.calls = 0
                 /\ W \in {r.w : r \in vec_new(last.pre, last.a, es)}
            /\ last.op = "with_capacity" /\ last.idx > 0 =>
                 /\ vecs[last.a].alloc
                 /\ vecs[last.a].len = 0
                 /\ vecs[last.a].capacity = last.idx
                 /\ vecs[last.a].data # NULL
                 /\ Len(vecs[last.a].cells) >= last.idx
            /\ last.op = "with_value" /\ last.idx > 0 =>
                 /\ vecs[last.a].alloc
                 /\ vecs[last.a].len = last.idx
                 /\ vecs[last.a].capacity = last.idx
                 /\ CurElems(last.a) = [i \in 1..last.idx |-> last.val]
\* An array of three elements equal to value, just built.
ConstructorsEstablishWitness ==
  /\ Returned("with_value") /\ last.idx = 3 /\ last.idx2 # 0
  /\ vecs[last.a].len = 3 /\ vecs[last.a].capacity = 3
  /\ CurElems(last.a) = <<last.val, last.val, last.val>>

\* C22: vec_from_raw_parts(raw_ptr, n, es) with a non-NULL raw_ptr gives an
\* array whose block is raw_ptr's, with capacity n and len n, and leaves no
\* other block allocated for it.
FromRawPartsWraps ==
  last.op = "from_raw_parts" /\ last.idx2 = 1 /\ last.val # 0 =>
    /\ ~exited
    /\ vecs[last.a].alloc
    /\ vecs[last.a].data # NULL
    /\ Len(vecs[last.a].cells) = last.idx
    /\ vecs[last.a].capacity = last.idx
    /\ vecs[last.a].len = last.idx
    /\ leaked = last.pre.leaked

\* C23: vec_peek, vec_delete, vec_remove, vec_swap_delete, vec_swap_remove,
\* vec_split_at and vec_swap called with an index >= len (be it below
\* capacity) return no status: they free the array, change no other array
\* and end the program.
BadIndexEndsProgram ==
  last.op \in {"peek", "delete", "remove", "swap_delete", "swap_remove",
               "split_at", "swap"}
    /\ (last.idx >= Pre(last.a).len
          \/ (last.op = "swap" /\ last.idx2 >= Pre(last.a).len)) =>
    /\ exited
    /\ last.ret = NoRet
    /\ vecs[last.a] = NoVec
    /\ \A v \in Vecs \ {last.a} : vecs[v] = Pre(v)
\* A peek at index len of an array with room beyond len.
BadIndexEndsProgramWitness ==
  /\ last.op = "peek" /\ exited
  /\ Pre(last.a).len >= 1
  /\ last.idx = Pre(last.a).len
  /\ last.idx < Pre(last.a).capacity
  /\ vecs[last.a] = NoVec

\* C24: when the allocator fails inside vec_push, vec_insert, vec_resize,
\* vec_reserve, vec_shrink_to_fit, vec_truncate, vec_append, vec_split_at or
\* vec_copy, the call returns VEC_ERR and every array is as it was before
\* the call: same len, same capacity, same buffer, same elements, and no
\* block has been lost.
AllocFailureKeepsState ==
  last.failed
    /\ last.op \in {"push", "insert", "resize", "reserve", "shrink_to_fit",
                    "truncate", "append", "split_at", "copy"} =>
    /\ last.ret = VEC_ERR
    /\ W = last.pre

\* The indexes (from 0) of the live elements of e equal to value.
Hits(e, value) == {i \in 0..(Len(e) - 1) : e[i + 1] = value}
\* The smallest of a non-empty set of indexes.
First(S) == CHOOSE i \in S : \A j \in S : i <= j

\* C25 as stated: vec_contains returns 1 if a live element equals value and
\* 0 otherwise; vec_search returns the smallest index of such an element and
\* -1 when there is none, an empty array without buffer included; neither
\* changes the array.
LookupsFindValue ==
  last.op \in {"contains", "search"} =>
    LET h == Hits(PreElems(last.a), last.val) IN
    /\ W = last.pre
    /\ last.op = "contains" => last.ret = (IF h # {} THEN 1 ELSE 0)
    /\ last.op = "search" => last.ret = (IF h # {} THEN First(h) ELSE 0 - 1)
\* C25, amended: the above for an array that has a buffer, where
\* vec_contains gives 1 exactly when vec_search does not give -1; on an array
\* without buffer both return VEC_ERR.
LookupsFindValueInBlock ==
  last.op \in {"contains", "search"} =>
    LET h == Hits(PreElems(last.a), last.val) IN
    /\ W = last.pre
    /\ Pre(last.a).data = NULL => last.ret = VEC_ERR
    /\ Pre(last.a).data # NULL =>
         /\ last.op = "contains" => last.ret = (IF h # {} THEN 1 ELSE 0)
         /\ last.op = "search" =>
              /\ last.ret = (IF h # {} THEN First(h) ELSE 0 - 1)
              /\ \A c \in vec_contains(last.pre, last.a, last.val) :
                   c.ret = 1 <=> last.ret # 0 - 1
\* A search for a value held at indexes 1 and 2 but not at 0.
LookupsFindValueWitness ==
  /\ last.op = "search" /\ last.ret = 1
  /\ Pre(last.a).len = 3
  /\ PreElems(last.a)[1] # last.val
  /\ PreElems(last.a)[3] = last.val

\* e with the elements at indexes i and j (from 0) exchanged.
Exchanged(e, i, j) ==
  [k \in 1..Len(e) |-> IF k = i + 1 THEN e[j + 1]
                       ELSE IF k = j + 1 THEN e[i + 1] ELSE e[k]]

\* C26: vec_swap(i, j) with i < len and j < len returns VEC_OK, exchanges
\* the elements at i and j and leaves every other element, len, capacity
\* and every other array as they were; with i = j it changes nothing; and
\* the same swap applied again restores the array.
SwapExchanges ==
  Returned("swap") =>
    /\ last.ret = VEC_OK
    /\ W = [last.pre EXCEPT !.vecs[last.a].cells =
                              Exchanged(@, last.idx, last.idx2)]
    /\ CurElems(last.a) = Exchanged(PreElems(last.a), last.idx, last.idx2)
    /\ last.idx = last.idx2 => W = last.pre
    /\ \A r \in vec_swap(W, last.a, last.idx, last.idx2) :
         r.ret = VEC_OK /\ r.w = last.pre
\* A swap of the first and last of three elements that differ.
SwapExchangesWitness ==
  /\ Returned("swap") /\ last.idx = 0 /\ last.idx2 = 2
  /\ Pre(last.a).len = 3
  /\ PreElems(last.a)[1] # PreElems(last.a)[3]
  /\ CurElems(last.a)[1] = PreElems(last.a)[3]
  /\ CurElems(last.a)[3] = PreElems(last.a)[1]

\* The first n elements of e in reverse order, the rest as they are.
Reversed(e, n) ==
  [k \in 1..Len(e) |-> IF k <= n THEN e[n + 1 - k] ELSE e[k]]

\* C27 as stated: vec_reverse on any array, of any len, returns VEC_OK and
\* leaves at each index i < len the element formerly at len-1-i, with len
\* and capacity unchanged; applied again it restores the original sequence.
ReverseReverses ==
  Returned("reverse") =>
    /\ last.ret = VEC_OK
    /\ W = [last.pre EXCEPT !.vecs[last.a].cells =
                              Reversed(@, Pre(last.a).len)]
    /\ \A r \in vec_reverse(W, last.a) : r.ret = VEC_OK /\ r.w = last.pre
\* C27, amended: the above on an array that has a buffer; on an array
\* without buffer vec_reverse returns VEC_ERR and changes nothing.
ReverseReversesInBlock ==
  Returned("reverse") =>
    /\ Pre(last.a).data = NULL => last.ret = VEC_ERR /\ W = last.pre
    /\ Pre(last.a).data # NULL =>
         /\ last.ret = VEC_OK
         /\ W = [last.pre EXCEPT !.vecs[last.a].cells =
                                   Reversed(@, Pre(last.a).len)]
         /\ CurElems(last.a) = Reversed(PreElems(last.a), Pre(last.a).len)
         /\ \A r \in vec_reverse(W, last.a) : r.ret = VEC_OK /\ r.w = last.pre
\* A reversal of two elements that differ, in a block with room for more.
ReverseReversesWitness ==
  /\ Returned("reverse") /\ last.ret = VEC_OK
  /\ Pre(last.a).len = 2 /\ Pre(last.a).capacity = 3
  /\ PreElems(last.a)[1] # PreElems(last.a)[2]
  /\ CurElems(last.a) = <<PreElems(last.a)[2], PreElems(last.a)[1]>>

\* C28: no call reads or writes a slot at an index >= capacity of the
\* array it accesses, that is, outside the array's block.
NoAccessOutsideBlock == ~last.oob

\* The calls C29 lists: vec_pop on an empty array, vec_resize below len,
\* vec_resize, vec_reserve, vec_shrink_to_fit, vec_truncate or vec_reverse
\* on an array without buffer, vec_append from a source without buffer.
Refused ==
  \/ last.op = "pop" /\ Pre(last.a).len = 0
  \/ last.op = "resize" /\ last.idx < Pre(last.a).len
  \/ last.op \in {"resize", "reserve", "shrink_to_fit", "truncate", "reverse"}
       /\ Pre(last.a).data = NULL
  \/ last.op = "append" /\ Pre(last.b).data = NULL

\* The operations that return VEC_OK or VEC_ERR.
StatusOps ==
  {"copy", "resize", "reserve", "shrink_to_fit", "truncate", "clear", "push",
   "insert", "pop", "delete", "remove", "swap_delete", "swap_remove",
   "append", "split_at", "swap", "reverse"}

\* C29: each of the calls listed returns VEC_ERR and leaves the len,
\* capacity, buffer and elements of every array as before the call; so does
\* every call that returns VEC_ERR for a reason other than the allocator
\* having returned NULL, that is, before it has called the allocator.
RefusalKeepsState ==
  /\ Refused => last.ret = VEC_ERR /\ W = last.pre
  /\ last.op \in StatusOps /\ last.ret = VEC_ERR /\ last.calls = 0 =>
       W = last.pre
\* A vec_resize below len of an array that holds elements.
RefusalKeepsStateWitness ==
  /\ last.op = "resize" /\ last.ret = VEC_ERR
  /\ Pre(last.a).data # NULL
  /\ last.idx < Pre(last.a).len
  /\ Pre(last.a).len < Pre(last.a).capacity
  /\ vecs[last.a] = Pre(last.a)

\* C30: each array owns its block alone and every block the library has
\* allocated is the block of one live array or has been freed.  Blocks are
\* held inside the arrays' records, so no two arrays share one; what is left
\* to check is that no block is orphaned: no call ends with an allocated
\* block that no array points to.
NoBlockOrphaned == leaked = 0

====
